---- MODULE Spec2Model ----
(***************************************************************************)
(* License server (src/unnamed/part_000): an Express application over one  *)
(* better-sqlite3 table `licenses`.  Every route handler is synchronous    *)
(* JavaScript (better-sqlite3 statements block, no handler awaits), so the *)
(* Node event loop runs each handler to completion before the next request *)
(* is dispatched: one handler is one atomic step.  Requests that arrive    *)
(* simultaneously are served one after the other, in any order, within the *)
(* same clock instant.                                                     *)
(*                                                                         *)
(* Time is the millisecond clock behind Date.now()/new Date().  ISO-8601   *)
(* strings written by toISOString() and read back by new Date(...) keep    *)
(* the millisecond value exactly, so a timestamp is stored as the number   *)
(* it denotes.  JavaScript numbers hold days * 86400000 exactly; to stay   *)
(* exact here a time t is the pair [d, ms] with t = d * DayMs + ms and     *)
(* 0 <= ms < DayMs.                                                        *)
(***************************************************************************)
EXTENDS Integers, Sequences, FiniteSets, TLC

VARIABLES
    licenses,                   \* rows of table `licenses`
    clock,                      \* the wall clock, ms
    BIND_IP_ON_FIRST_VALIDATE,  \* configuration flag, fixed at start-up
    resp                        \* the response the step just taken sent

vars == <<licenses, clock, BIND_IP_ON_FIRST_VALIDATE, resp>>

----------------------------------------------------------------------------
(* Bounds and constants *)

MaxMs == 1               \* the clock stops advancing after this many ms

DayMs == 86400000        \* days * 86400000

DefaultDays == 30        \* days = 30 when the caller gives none

Null == "NULL"           \* SQL NULL / JS null / undefined, for text values

NullTime == [d |-> 0 - 1, ms |-> 0]   \* SQL NULL for a timestamp column

\* t + n ms, for 0 <= n < DayMs
AddMs(t, n) ==
    IF t.ms + n >= DayMs THEN [d |-> t.d + 1, ms |-> t.ms + n - DayMs]
    ELSE [d |-> t.d, ms |-> t.ms + n]

\* variant: the day count is scaled to seconds, days * 86400
AddDaysAsSeconds(t, days) == AddMs(t, days * 86400)

\* t + days * 86400000
AddDays(t, days) == [d |-> t.d + days, ms |-> t.ms]

\* new Date(a) < new Date(b)
Before(a, b) == a.d < b.d \/ (a.d = b.d /\ a.ms < b.ms)

\* the clock values the model lets time reach
InRange(t) == t.d = 0 /\ t.ms <= MaxMs

----------------------------------------------------------------------------
(* Inputs *)

\* license keys callers present; "S-1" is also the key makeKey produces
KeyInputs == {Null, "S-1"}

\* req.query.tier of /generate
TierInputs == {Null, "s", "x"}

\* productName of /wix/order; "Aegis" brings a second key, "A-1", into the table
ProductInputs == {Null, "Sentinel", "Aegis", "Bogus"}

\* owner_email / email
EmailInputs == {Null, "e1"}

\* days as the caller sends it (query string or JSON body)
DaysInputs == {"0", "1", "abc"}

\* the hex suffix crypto.randomBytes(12) yields
RandInputs == {"1"}

\* where a request comes from: the x-client-ip and x-forwarded-for headers
\* and req.ip.  A header value is a comma separated list, kept as the
\* sequence of entries that split(',') yields; <<>> is a header the request
\* does not carry.
OriginInputs ==
    { [xClientIp |-> <<>>,    xForwardedFor |-> <<>>,          ip |-> "::ffff:a"],
      [xClientIp |-> <<"">>,  xForwardedFor |-> <<"b ", "a">>, ip |-> "a"],
      [xClientIp |-> <<"b">>, xForwardedFor |-> <<"a">>,       ip |-> "a"],
      [xClientIp |-> <<>>,    xForwardedFor |-> <<"", "b">>,   ip |-> "b"] }

\* second reading of the clock inside one handler: 0 or 1 ms later
LagInputs == {0, 1}

----------------------------------------------------------------------------
(* JavaScript helpers *)

\* truthiness of a string-or-null value: null, undefined and '' are falsy
Truthy(s) == s # Null /\ s # ""

\* String.prototype.trim on the header entries in use
Trim(s) ==
    CASE s = "a " -> "a"
      [] s = "b " -> "b"
      [] s = " "  -> ""
      [] OTHER    -> s

\* String.prototype.toUpperCase on the tier letters in use
ToUpperCase(s) ==
    CASE s = "s" -> "S"
      [] s = "g" -> "G"
      [] s = "a" -> "A"
      [] s = "x" -> "X"
      [] OTHER   -> s

\* parseInt(s, 10): the leading integer of s, NaN when there is none
IsNaN(s) == s \notin {"-1", "0", "1", "30"}

ParseInt(s) ==
    CASE s = "-1" -> 0 - 1
      [] s = "0"  -> 0
      [] s = "1"  -> 1
      [] s = "30" -> DefaultDays
      [] OTHER    -> 0

\* a header as req.get sees it: undefined when absent, '' when empty
HeaderTruthy(h) == h # <<>> /\ h # <<"">>

----------------------------------------------------------------------------
(* helpers of the server *)

makeKey(tierChar, rand) == tierChar \o "-" \o rand

\* ip.replace('::ffff:', '') when ip.startsWith('::ffff:')
StripMapped(ip) ==
    CASE ip = "::ffff:a" -> "a"
      [] ip = "::ffff:b" -> "b"
      [] OTHER           -> ip

getRequestIP(req) ==
    LET forwarded == IF HeaderTruthy(req.xClientIp) THEN req.xClientIp
                     ELSE req.xForwardedFor
    IN  IF HeaderTruthy(forwarded)
        THEN Trim(forwarded[1])
        ELSE StripMapped(IF Truthy(req.ip) THEN req.ip ELSE "")

----------------------------------------------------------------------------
(* the table *)

\* variant: the INSERT stores active = 0
NewRowInactive(id, key, tier, email, createdAt, expiresAt) ==
    [ id |-> id, key |-> key, tier |-> tier, owner_email |-> email,
      created_at |-> createdAt, expires_at |-> expiresAt, active |-> 0,
      bound_ip |-> Null, last_seen_ip |-> Null, last_validated |-> NullTime ]

\* INSERT INTO licenses (id, key, tier, owner_email, created_at, expires_at,
\* active) VALUES (?, ?, ?, ?, ?, ?, 1)
NewRow(id, key, tier, email, createdAt, expiresAt) ==
    [ id |-> id, key |-> key, tier |-> tier, owner_email |-> email,
      created_at |-> createdAt, expires_at |-> expiresAt, active |-> 1,
      bound_ip |-> Null, last_seen_ip |-> Null, last_validated |-> NullTime ]

\* SELECT * FROM licenses WHERE key = ?
SelectByKey(key) == { r \in licenses : r.key = key }

\* .get(): the first matching row, or undefined
HasRow(key) == SelectByKey(key) # {}

GetRow(key) == CHOOSE r \in SelectByKey(key) : TRUE

\* uuidv4(): a fresh id
uuidv4 == Cardinality(licenses) + 1

\* variant: the key column is not declared UNIQUE
InsertThrowsIdOnly(row) == \E r \in licenses : r.id = row.id

\* INSERT violates key TEXT UNIQUE / id TEXT PRIMARY KEY
InsertThrows(row) == \E r \in licenses : r.key = row.key \/ r.id = row.id

Insert(row) == licenses \cup {row}

\* variant: the UPDATE that marks a license inactive is lost
SetInactiveNoop(key) == licenses

\* variant: the UPDATE flips the flag, SET active = 1 - active
SetInactiveToggle(key) ==
    { IF r.key = key THEN [r EXCEPT !.active = 1 - r.active] ELSE r : r \in licenses }

\* UPDATE licenses SET active = 0 WHERE key = ?
SetInactive(key) ==
    { IF r.key = key THEN [r EXCEPT !.active = 0] ELSE r : r \in licenses }

\* UPDATE licenses SET bound_ip = ? WHERE key = ?
SetBoundIp(rows, key, ip) ==
    { IF r.key = key THEN [r EXCEPT !.bound_ip = ip] ELSE r : r \in rows }

\* variant: the UPDATE has no WHERE clause
SetLastSeenAll(rows, key, ip, now) ==
    { [r EXCEPT !.last_seen_ip = ip, !.last_validated = now] : r \in rows }

\* UPDATE licenses SET last_seen_ip = ?, last_validated = ? WHERE key = ?
SetLastSeen(rows, key, ip, now) ==
    { IF r.key = key THEN [r EXCEPT !.last_seen_ip = ip, !.last_validated = now]
      ELSE r : r \in rows }

\* variant: re-activation also resets the binding
SetActivatedUnbind(key, expiresAt, email) ==
    { IF r.key = key
      THEN [r EXCEPT !.active = 1, !.expires_at = expiresAt, !.owner_email = email,
                     !.bound_ip = Null]
      ELSE r : r \in licenses }

\* UPDATE licenses SET active = 1, expires_at = ?, owner_email = ? WHERE key = ?
SetActivated(key, expiresAt, email) ==
    { IF r.key = key
      THEN [r EXCEPT !.active = 1, !.expires_at = expiresAt, !.owner_email = email]
      ELSE r : r \in licenses }

\* variant: SET expires_at = ? alone, the active flag is left as it is
SetRenewedKeepActive(key, expiresAt) ==
    { IF r.key = key THEN [r EXCEPT !.expires_at = expiresAt] ELSE r : r \in licenses }

\* variant: renewal never shortens, it keeps the later expiry
SetRenewedExtend(key, expiresAt) ==
    { IF r.key = key
      THEN [r EXCEPT !.active = 1,
                     !.expires_at = IF Before(expiresAt, r.expires_at)
                                    THEN r.expires_at ELSE expiresAt]
      ELSE r : r \in licenses }

\* UPDATE licenses SET expires_at = ?, active = 1 WHERE key = ?
SetRenewed(key, expiresAt) ==
    { IF r.key = key THEN [r EXCEPT !.expires_at = expiresAt, !.active = 1]
      ELSE r : r \in licenses }

----------------------------------------------------------------------------
(* responses *)

NoResp ==
    [ op |-> "none", status |-> 0, valid |-> "absent", reason |-> Null,
      error |-> Null, license |-> Null, ip |-> Null, tier |-> Null,
      expires_at |-> NullTime, bound_ip |-> Null, created |-> FALSE,
      tierChar |-> Null,  \* the tier letter the request asked for, upper-cased
      days |-> Null,      \* the days the request asked for, as parseInt reads it
      inserts |-> 0 ]     \* INSERT statements the handler ran

\* res.status(s).json({ error: e })
ErrorResp(op, key, s, e) ==
    [NoResp EXCEPT !.op = op, !.license = key, !.status = s, !.error = e]

\* res.status(s).json({ valid: false, reason: r })
InvalidResp(key, ip, s, r) ==
    [NoResp EXCEPT !.op = "validate", !.license = key, !.ip = ip, !.status = s,
                   !.valid = "false", !.reason = r]

----------------------------------------------------------------------------
Init ==
    /\ licenses = {}
    /\ clock = [d |-> 0, ms |-> 0]
    /\ BIND_IP_ON_FIRST_VALIDATE \in BOOLEAN
    /\ resp = NoResp

\* a millisecond passes
Tick ==
    /\ InRange(AddMs(clock, 1))
    /\ clock' = AddMs(clock, 1)
    /\ resp' = NoResp
    /\ UNCHANGED <<licenses, BIND_IP_ON_FIRST_VALIDATE>>

\* variant: the active flag is not checked
InactiveUnchecked(row) == FALSE

\* !row.active
Inactive(row) == row.active = 0

\* variant: expires_at is not checked
ExpiredUnchecked(row, now) == FALSE

\* variant: the expiry check reads created_at
ExpiredByCreation(row, now) ==
    row.created_at # NullTime /\ Before(row.created_at, now)

\* row.expires_at && new Date(row.expires_at) < new Date()
Expired(row, now) == row.expires_at # NullTime /\ Before(row.expires_at, now)

\* row.bound_ip && row.bound_ip !== incomingIp
IpMismatch(row, incomingIp) == Truthy(row.bound_ip) /\ row.bound_ip # incomingIp

\* !row.bound_ip && BIND_IP_ON_FIRST_VALIDATE
BindNow(row) == ~Truthy(row.bound_ip) /\ BIND_IP_ON_FIRST_VALIDATE

\* variant: an address mismatch is sent as 403 Forbidden
DecisionStatusForbidden(reason) ==
    IF reason = "not_found" THEN 404 ELSE IF reason = "ip_mismatch" THEN 403 ELSE 200

\* the status a validation decision is sent with: res.status(404) for
\* not_found, plain res.json (200) for the others
DecisionStatus(reason) == IF reason = "not_found" THEN 404 ELSE 200

\* GET /validate
Validate(license, req, lag) ==
    LET incomingIp == getRequestIP(req)
        now        == clock
        now2       == AddMs(clock, lag)
        row        == GetRow(license)
        Decide(r)  == InvalidResp(license, incomingIp, DecisionStatus(r), r)
    IN  /\ InRange(now2)
        /\ clock' = now2
        /\ UNCHANGED BIND_IP_ON_FIRST_VALIDATE
        /\ IF ~Truthy(license)
           THEN /\ resp' = InvalidResp(license, Null, 400, "license required")
                /\ UNCHANGED licenses
           ELSE IF ~HasRow(license)
           THEN /\ resp' = Decide("not_found")
                /\ UNCHANGED licenses
           ELSE IF Inactive(row)
           THEN /\ resp' = Decide("deactivated")
                /\ UNCHANGED licenses
           ELSE IF Expired(row, now2)
           THEN /\ licenses' = SetInactive(license)
                /\ resp' = Decide("expired")
           ELSE IF IpMismatch(row, incomingIp)
           THEN /\ resp' = [Decide("ip_mismatch") EXCEPT !.bound_ip = row.bound_ip]
                /\ UNCHANGED licenses
           ELSE /\ licenses' =
                     SetLastSeen(
                       IF BindNow(row)
                       THEN SetBoundIp(licenses, license, incomingIp)
                       ELSE licenses,
                       license, incomingIp, now)
                /\ resp' =
                     [NoResp EXCEPT !.op = "validate", !.status = 200,
                        !.valid = "true", !.license = row.key, !.ip = incomingIp,
                        !.tier = row.tier, !.expires_at = row.expires_at,
                        !.bound_ip = IF Truthy(row.bound_ip) THEN row.bound_ip
                                     ELSE incomingIp]

\* requireAdmin: the x-admin-token header is missing or differs from ADMIN_TOKEN
Unauthorized(op) == ErrorResp(op, Null, 401, "unauthorized")

\* tier === 'A' ? 'Aegis' : tier === 'G' ? 'Guardian' : 'Sentinel'
TierName(tier) ==
    IF tier = "A" THEN "Aegis" ELSE IF tier = "G" THEN "Guardian" ELSE "Sentinel"

\* GET /generate
Generate(admin, tierIn, email, daysIn, rand, lag) ==
    LET tier      == ToUpperCase(IF Truthy(tierIn) THEN tierIn ELSE "S")
        daysStr   == IF Truthy(daysIn) THEN daysIn ELSE "30"
        expiresAt == AddDays(clock, ParseInt(daysStr))
        key       == makeKey(tier, rand)
        createdAt == AddMs(clock, lag)
        row       == NewRow(uuidv4, key, tier, email, createdAt, expiresAt)
    IN  /\ InRange(AddMs(clock, lag))
        /\ clock' = AddMs(clock, lag)
        /\ UNCHANGED BIND_IP_ON_FIRST_VALIDATE
        /\ IF ~admin
           THEN resp' = Unauthorized("generate") /\ UNCHANGED licenses
           ELSE IF tier \notin {"S", "G", "A"}
           THEN /\ resp' = [ErrorResp("generate", Null, 400, "invalid tier")
                              EXCEPT !.tierChar = tier]
                /\ UNCHANGED licenses
           ELSE IF IsNaN(daysStr) \/ InsertThrows(row)
           THEN /\ resp' = [ErrorResp("generate", Null, 500, "server_error")
                              EXCEPT !.tierChar = tier, !.days = daysStr,
                                     !.inserts = IF IsNaN(daysStr) THEN 0 ELSE 1]
                /\ UNCHANGED licenses
           ELSE /\ licenses' = Insert(row)
                /\ resp' = [NoResp EXCEPT !.op = "generate", !.status = 200,
                              !.license = key, !.tier = TierName(tier),
                              !.tierChar = tier,
                              !.expires_at = expiresAt, !.days = daysStr,
                              !.inserts = 1]

\* POST /activate
Activate(admin, license, daysIn, email, lag) ==
    LET daysStr   == IF daysIn = Null THEN "30" ELSE daysIn
        expiresAt == AddDays(clock, ParseInt(daysStr))
        now       == AddMs(clock, lag)
        row       == NewRow(uuidv4, license, "S", email, now, expiresAt)
    IN  /\ InRange(AddMs(clock, lag))
        /\ clock' = AddMs(clock, lag)
        /\ UNCHANGED BIND_IP_ON_FIRST_VALIDATE
        /\ IF ~admin
           THEN resp' = Unauthorized("activate") /\ UNCHANGED licenses
           ELSE IF ~Truthy(license)
           THEN /\ resp' = ErrorResp("activate", license, 400, "license required")
                /\ UNCHANGED licenses
           ELSE IF IsNaN(daysStr)
           THEN /\ resp' = [ErrorResp("activate", license, 500, "server_error")
                              EXCEPT !.days = daysStr]
                /\ UNCHANGED licenses
           ELSE IF ~HasRow(license)
           THEN /\ licenses' = Insert(row)
                /\ resp' = [NoResp EXCEPT !.op = "activate", !.status = 200,
                              !.license = license, !.created = TRUE,
                              !.expires_at = expiresAt, !.days = daysStr,
                              !.inserts = 1]
           ELSE /\ licenses' = SetActivated(license, expiresAt, email)
                /\ resp' = [NoResp EXCEPT !.op = "activate", !.status = 200,
                              !.license = license, !.expires_at = expiresAt,
                              !.days = daysStr]

\* variant: /renew does not look the key up
RenewMissingUnchecked(license) == FALSE

\* if (!row) return res.status(404)
RenewMissing(license) == ~HasRow(license)

\* POST /renew
Renew(admin, license, daysIn) ==
    LET daysStr   == IF daysIn = Null THEN "30" ELSE daysIn
        expiresAt == AddDays(clock, ParseInt(daysStr))
    IN  /\ UNCHANGED <<clock, BIND_IP_ON_FIRST_VALIDATE>>
        /\ IF ~admin
           THEN resp' = Unauthorized("renew") /\ UNCHANGED licenses
           ELSE IF ~Truthy(license)
           THEN /\ resp' = ErrorResp("renew", license, 400, "license required")
                /\ UNCHANGED licenses
           ELSE IF RenewMissing(license)
           THEN /\ resp' = ErrorResp("renew", license, 404, "not_found")
                /\ UNCHANGED licenses
           ELSE IF IsNaN(daysStr)
           THEN /\ resp' = [ErrorResp("renew", license, 500, "server_error")
                              EXCEPT !.days = daysStr]
                /\ UNCHANGED licenses
           ELSE /\ licenses' = SetRenewed(license, expiresAt)
                /\ resp' = [NoResp EXCEPT !.op = "renew", !.status = 200,
                              !.license = license, !.expires_at = expiresAt,
                              !.days = daysStr]

\* POST /deactivate
Deactivate(admin, license) ==
    /\ UNCHANGED <<clock, BIND_IP_ON_FIRST_VALIDATE>>
    /\ IF ~admin
       THEN resp' = Unauthorized("deactivate") /\ UNCHANGED licenses
       ELSE IF ~Truthy(license)
       THEN /\ resp' = ErrorResp("deactivate", license, 400, "license required")
            /\ UNCHANGED licenses
       ELSE /\ licenses' = SetInactive(license)
            /\ resp' = [NoResp EXCEPT !.op = "deactivate", !.status = 200,
                          !.license = license]

\* GET /info
Info(license) ==
    LET row == GetRow(license)
    IN  /\ UNCHANGED <<licenses, clock, BIND_IP_ON_FIRST_VALIDATE>>
        /\ IF ~Truthy(license)
           THEN resp' = ErrorResp("info", license, 400, "license required")
           ELSE IF ~HasRow(license)
           THEN resp' = ErrorResp("info", license, 404, "not_found")
           ELSE resp' = [NoResp EXCEPT !.op = "info", !.status = 200,
                           !.license = row.key, !.tier = row.tier,
                           !.expires_at = row.expires_at,
                           !.bound_ip = row.bound_ip]

\* Map Wix product names to internal tiers
ProductTier(productName) ==
    CASE productName = "Sentinel" -> "S"
      [] productName = "Guardian" -> "G"
      [] productName = "Aegis"    -> "A"
      [] OTHER                    -> Null

\* POST /wix/order
WixOrder(secretOk, email, productName, rand, lag) ==
    LET tier      == ProductTier(productName)
        key       == makeKey(tier, rand)
        createdAt == clock
        expiresAt == AddDays(AddMs(clock, lag), DefaultDays)
        row       == NewRow(uuidv4, key, tier, email, createdAt, expiresAt)
    IN  /\ InRange(AddMs(clock, lag))
        /\ clock' = AddMs(clock, lag)
        /\ UNCHANGED BIND_IP_ON_FIRST_VALIDATE
        /\ IF ~secretOk
           THEN resp' = Unauthorized("wix") /\ UNCHANGED licenses
           ELSE IF ~Truthy(email) \/ ~Truthy(productName)
           THEN /\ resp' = ErrorResp("wix", Null, 400, "email and productName required")
                /\ UNCHANGED licenses
           ELSE IF tier = Null
           THEN /\ resp' = ErrorResp("wix", Null, 400, "unknown productName")
                /\ UNCHANGED licenses
           ELSE IF InsertThrows(row)
           THEN /\ resp' = [ErrorResp("wix", Null, 500, "server_error")
                              EXCEPT !.inserts = 1]
                /\ UNCHANGED licenses
           ELSE /\ licenses' = Insert(row)
                /\ resp' = [NoResp EXCEPT !.op = "wix", !.status = 200,
                              !.license = key, !.tier = productName,
                              !.expires_at = expiresAt, !.inserts = 1]

Next ==
    \/ Tick
    \/ \E k \in KeyInputs, req \in OriginInputs, lag \in LagInputs :
          Validate(k, req, lag)
    \/ \E adm \in BOOLEAN, t \in TierInputs, e \in EmailInputs, d \in DaysInputs,
          r \in RandInputs, lag \in LagInputs : Generate(adm, t, e, d, r, lag)
    \/ \E adm \in BOOLEAN, k \in KeyInputs, d \in DaysInputs,
          e \in EmailInputs, lag \in LagInputs : Activate(adm, k, d, e, lag)
    \/ \E adm \in BOOLEAN, k \in KeyInputs, d \in DaysInputs : Renew(adm, k, d)
    \/ \E adm \in BOOLEAN, k \in KeyInputs : Deactivate(adm, k)
    \/ \E k \in KeyInputs : Info(k)
    \/ \E ok \in BOOLEAN, e \in EmailInputs, pn \in ProductInputs,
          r \in RandInputs, lag \in LagInputs : WixOrder(ok, e, pn, r, lag)

Spec == Init /\ [][Next]_vars

----------------------------------------------------------------------------
(* Properties *)

\* the row of key k in a table
RowIn(rows, k) == CHOOSE r \in rows : r.key = k

KeysOf(rows) == { r.key : r \in rows }

\* the step just taken served a /validate of the key of row r
ValidateOf(r) == resp'.op = "validate" /\ resp'.license = r.key

\* C1: with binding enabled, when validate requests for one active, unexpired
\* key arrive at the same instant from pairwise distinct addresses, the first
\* one accepted decides bound_ip: every request of the batch served after it,
\* coming from another address, is answered ip_mismatch and writes nothing.
C1_OneWinnerPerBatch ==
    [][\A r \in licenses :
          ( /\ BIND_IP_ON_FIRST_VALIDATE
            /\ ValidateOf(r)
            /\ r.active = 1 /\ ~Before(r.expires_at, clock')
            /\ r.last_validated = clock
            /\ r.last_seen_ip # resp'.ip )
          => /\ resp'.valid = "false" /\ resp'.reason = "ip_mismatch"
             /\ licenses' = licenses]_vars

\* C2: a bound_ip that holds a non-empty address is never changed or cleared,
\* whatever request is served.
C2_BoundIpStable ==
    [][\A r \in licenses :
          Truthy(r.bound_ip)
          => /\ r.key \in KeysOf(licenses')
             /\ \A r2 \in licenses' : r2.key = r.key => r2.bound_ip = r.bound_ip]_vars

C2_Witness ==
    \E r \in licenses :
        /\ Truthy(r.bound_ip)
        /\ resp.op = "activate" /\ resp.status = 200 /\ resp.license = r.key

\* C3: with binding enabled, a validate that returns valid=true on an unbound
\* record stores the requester address in bound_ip, and once a validate of a
\* key has been accepted, a validate of that key from another address is
\* answered ip_mismatch while the record is active and unexpired.
C3_FirstValidateBinds ==
    [][\A r \in licenses :
          (BIND_IP_ON_FIRST_VALIDATE /\ ValidateOf(r))
          => /\ (resp'.valid = "true" /\ ~Truthy(r.bound_ip))
                => RowIn(licenses', r.key).bound_ip = resp'.ip
             /\ ( /\ r.last_seen_ip # Null /\ r.last_seen_ip # resp'.ip
                  /\ r.active = 1 /\ ~Before(r.expires_at, clock') )
                => (resp'.valid = "false" /\ resp'.reason = "ip_mismatch")]_vars

\* C4: a validate of an active record whose expires_at has passed sets active
\* to false and answers expired; the validate served next for that key, and
\* any validate of an inactive record past its expiry, answers deactivated.
C4_ExpiredThenDeactivated ==
    [][\A r \in licenses :
          ValidateOf(r)
          => /\ (r.active = 1 /\ Before(r.expires_at, clock'))
                => /\ resp'.valid = "false" /\ resp'.reason = "expired"
                   /\ RowIn(licenses', r.key).active = 0
             /\ ( \/ (resp.op = "validate" /\ resp.reason = "expired"
                        /\ resp.license = r.key)
                  \/ (r.active = 0 /\ Before(r.expires_at, clock')) )
                => /\ resp'.valid = "false" /\ resp'.reason = "deactivated"
                   /\ licenses' = licenses]_vars

C4_Witness ==
    /\ resp.op = "validate" /\ resp.reason = "expired"
    /\ \E r \in licenses :
          r.key = resp.license /\ r.active = 0 /\ Before(r.expires_at, clock)

\* C5: a validate of a record with active = false answers valid=false,
\* reason=deactivated, whatever expires_at, bound_ip and the requester are.
C5_InactiveIsDeactivated ==
    [][\A r \in licenses :
          (ValidateOf(r) /\ r.active = 0)
          => /\ resp'.valid = "false" /\ resp'.reason = "deactivated"
             /\ licenses' = licenses]_vars

C5_Witness ==
    /\ resp.op = "validate" /\ resp.reason = "deactivated"
    /\ \E r \in licenses :
          /\ r.key = resp.license /\ r.active = 0
          /\ Before(r.expires_at, clock)
          /\ Truthy(r.bound_ip) /\ r.bound_ip # resp.ip

\* C6: for a key with no record, validate answers valid=false,
\* reason=not_found, renew and info answer not_found, and none of the three
\* creates a record.
C6_AbsentKey ==
    [][( /\ resp'.op \in {"validate", "renew", "info"}
         /\ Truthy(resp'.license) /\ ~HasRow(resp'.license) )
       => /\ licenses' = licenses
          /\ resp'.op = "validate"
             => (resp'.valid = "false" /\ resp'.reason = "not_found")
          /\ resp'.op \in {"renew", "info"}
             => (resp'.status = 404 /\ resp'.error = "not_found")]_vars

C6_Witness ==
    /\ resp.op = "renew" /\ resp.error = "not_found"
    /\ ~HasRow(resp.license) /\ licenses # {}

\* C7: a validate of an active record made at a time now >= expires_at,
\* now = expires_at included, answers valid=false, reason=expired.
C7_InvalidAtExpiry ==
    [][\A r \in licenses :
          (ValidateOf(r) /\ r.active = 1 /\ ~Before(clock', r.expires_at))
          => (resp'.valid = "false" /\ resp'.reason = "expired")]_vars

\* C8: active goes from true to false only by deactivate, or by a validate
\* that finds, at the moment of its write, expires_at in the past; renew and
\* activate served around it at the same instant never leave active = false
\* on a record whose expires_at is in the future at that write.
C8_NoStaleExpiry ==
    [][\A r \in licenses :
          (r.key \in KeysOf(licenses') /\ r.active = 1
             /\ RowIn(licenses', r.key).active = 0)
          => \/ resp'.op = "deactivate" /\ resp'.license = r.key
             \/ /\ ValidateOf(r) /\ resp'.reason = "expired"
                /\ Before(RowIn(licenses', r.key).expires_at, clock')]_vars

C8_Witness ==
    /\ resp.op = "validate" /\ resp.reason = "expired"
    /\ \E r \in licenses :
          /\ r.key = resp.license /\ r.active = 0
          /\ r.created_at = clock /\ Before(r.expires_at, clock)

\* the fields validate never writes
SameIdentity(r, r2) ==
    /\ r2.id = r.id /\ r2.key = r.key /\ r2.tier = r.tier
    /\ r2.owner_email = r.owner_email
    /\ r2.created_at = r.created_at /\ r2.expires_at = r.expires_at

\* C9: validate changes no record but the one of its key, and of that one:
\* nothing with outcome not_found, deactivated or ip_mismatch; active alone
\* (to false) with outcome expired; with valid=true last_seen_ip (the
\* requester), last_validated (now) and, when it was unset and binding is
\* enabled, bound_ip.  key, tier, owner_email, created_at and expires_at
\* never change.
C9_ValidateFrame ==
    [][resp'.op = "validate"
       => /\ KeysOf(licenses') = KeysOf(licenses)
          /\ Cardinality(licenses') = Cardinality(licenses)
          /\ \A r \in licenses :
                LET r2 == RowIn(licenses', r.key)
                IN  /\ SameIdentity(r, r2)
                    /\ r.key # resp'.license => r2 = r
                    /\ resp'.reason \in {"not_found", "deactivated", "ip_mismatch"}
                       => r2 = r
                    /\ (resp'.reason = "expired" /\ r.key = resp'.license)
                       => (r.active = 1 /\ r2 = [r EXCEPT !.active = 0])
                    /\ (resp'.valid = "true" /\ r.key = resp'.license)
                       => /\ r2.active = r.active
                          /\ r2.last_seen_ip = resp'.ip
                          /\ r2.last_validated = clock
                          /\ r2.bound_ip # r.bound_ip
                             => /\ ~Truthy(r.bound_ip)
                                /\ BIND_IP_ON_FIRST_VALIDATE
                                /\ r2.bound_ip = resp'.ip]_vars

C9_Witness ==
    /\ resp.op = "validate" /\ resp.valid = "true"
    /\ Cardinality(licenses) = 2
    /\ \E r \in licenses :
          /\ r.key = resp.license
          /\ Truthy(r.bound_ip) /\ r.bound_ip = resp.ip
          /\ r.last_seen_ip = resp.ip

\* the validation decisions
Decisions == {"not_found", "deactivated", "expired", "ip_mismatch"}

\* C10 as stated: every validation decision is a successful (200) response
\* carrying valid=false and a reason, never an error status.
C10_DecisionsAreSuccess ==
    (resp.op = "validate" /\ resp.reason \in Decisions)
    => (resp.status = 200 /\ resp.valid = "false")

\* C10, amended: deactivated, expired and ip_mismatch are sent with status
\* 200, not_found with status 404, all carrying valid=false and the reason;
\* validate sends no other error status than 404 for an unknown key and 400
\* for a missing license parameter.
C10_DecisionStatuses ==
    resp.op = "validate"
    => /\ resp.reason \in {"deactivated", "expired", "ip_mismatch"}
          => (resp.status = 200 /\ resp.valid = "false")
       /\ resp.reason = "not_found" => (resp.status = 404 /\ resp.valid = "false")
       /\ resp.status # 200
          => (resp.valid = "false" /\ resp.reason \in {"not_found", "license required"})
       /\ resp.valid = "true" => resp.status = 200

C10_Witness ==
    /\ resp.op = "validate" /\ resp.reason = "not_found" /\ resp.status = 404
    /\ licenses # {}

\* the instant n whole days after t
PlusDays(t, n) == [d |-> t.d + n, ms |-> t.ms]

\* the step just taken served op for key k and answered 200
Served(op, k) == resp'.op = op /\ resp'.status = 200 /\ resp'.license = k

\* C11: activate on a key with no record creates exactly one record, for that
\* key, with tier S, active = true and expires_at = now + days * 86400 s, and
\* reports created = true; activate on a key that has a record creates none
\* and does not report created = true: created is set exactly when the record
\* did not exist before the call.
C11_ActivateCreates ==
    [][resp'.op = "activate"
       => /\ resp'.status # 200 => (~resp'.created /\ licenses' = licenses)
          /\ resp'.status = 200
             => LET k == resp'.license
                IN  /\ resp'.created <=> ~HasRow(k)
                    /\ HasRow(k)
                       => /\ KeysOf(licenses') = KeysOf(licenses)
                          /\ Cardinality(licenses') = Cardinality(licenses)
                    /\ ~HasRow(k)
                       => /\ licenses \subseteq licenses'
                          /\ Cardinality(licenses') = Cardinality(licenses) + 1
                          /\ \A r \in licenses' \ licenses :
                                /\ r.key = k /\ r.tier = "S" /\ r.active = 1
                                /\ r.expires_at =
                                     PlusDays(clock, ParseInt(resp'.days))]_vars

C11_Witness ==
    /\ resp.op = "activate" /\ resp.status = 200 /\ resp.created
    /\ Cardinality(licenses) = 2
    /\ \E r \in licenses :
          /\ r.key = resp.license /\ r.tier = "S" /\ r.active = 1
          /\ r.expires_at = PlusDays(r.created_at, 1)

\* C12: activate on a known key sets active = true and expires_at = now +
\* days * 86400 s and leaves tier, bound_ip, created_at and key unchanged;
\* owner_email changes only to an address the call gives: a call that gives
\* none leaves the stored owner_email as it was.
C12_ActivateKeepsEmail ==
    [][\A r \in licenses :
          Served("activate", r.key)
          => LET r2 == RowIn(licenses', r.key)
             IN  /\ r2.active = 1
                 /\ r2.expires_at = PlusDays(clock, ParseInt(resp'.days))
                 /\ r2.tier = r.tier /\ r2.bound_ip = r.bound_ip
                 /\ r2.created_at = r.created_at
                 /\ r2.owner_email # r.owner_email => Truthy(r2.owner_email)]_vars

\* C13 as stated: a renew or activate on the key of a record never leaves
\* its expires_at earlier than it was before the call.
C13_ExpiryNeverRetreats ==
    [][\A r \in licenses :
          (Served("renew", r.key) \/ Served("activate", r.key))
          => ~Before(RowIn(licenses', r.key).expires_at, r.expires_at)]_vars

\* C13, amended: a renew or activate on the key of a record overwrites its
\* expires_at with now + days * 86400 s, whatever it was before; the new value
\* is not earlier than the old one when the old one was not in the future,
\* and is earlier than the old one whenever now + days * 86400 s is.
C13_ExpiryOverwritten ==
    [][\A r \in licenses :
          (Served("renew", r.key) \/ Served("activate", r.key))
          => LET r2  == RowIn(licenses', r.key)
                 new == PlusDays(clock, ParseInt(resp'.days))
             IN  /\ r2.expires_at = new
                 /\ (~Before(clock, r.expires_at) /\ ParseInt(resp'.days) >= 0)
                    => ~Before(r2.expires_at, r.expires_at)
                 /\ Before(new, r.expires_at)
                    => Before(r2.expires_at, r.expires_at)]_vars

C13_Witness ==
    /\ resp.op = "renew" /\ resp.status = 200 /\ resp.days = "0"
    /\ \E r \in licenses :
          /\ r.key = resp.license /\ r.active = 1
          /\ Before(r.created_at, clock) /\ r.expires_at = clock

\* C14: an authorised deactivate of a key reports ok whether or not the key
\* has a record, and creates none; it sets active = false on the record of
\* its key and changes nothing else, so a second deactivate of the same key
\* reports ok as well and leaves the table exactly as the first one left it.
C14_DeactivateIdempotent ==
    [][(resp'.op = "deactivate" /\ Truthy(resp'.license))
       => LET k == resp'.license
          IN  /\ resp'.status = 200 /\ resp'.error = Null
              /\ KeysOf(licenses') = KeysOf(licenses)
              /\ Cardinality(licenses') = Cardinality(licenses)
              /\ \A r \in licenses :
                    RowIn(licenses', r.key) =
                       IF r.key = k THEN [r EXCEPT !.active = 0] ELSE r
              /\ ~HasRow(k) => licenses' = licenses
              /\ (resp.op = "deactivate" /\ resp.status = 200 /\ resp.license = k)
                 => licenses' = licenses]_vars

C14_Witness ==
    /\ resp.op = "deactivate" /\ resp.status = 200
    /\ Cardinality(licenses) = 2
    /\ \E r \in licenses :
          /\ r.key = resp.license /\ r.active = 0
          /\ Truthy(r.bound_ip) /\ r.owner_email # Null

\* C15: when the INSERT of generate is rejected because the generated key is
\* already in the table, generate draws a fresh key and tries once more: a
\* server error reaches the caller only after two rejected INSERTs, and the
\* table is left as it was.
C15_CollisionRetried ==
    [][( /\ resp'.op = "generate" /\ resp'.status = 500
         /\ ~IsNaN(resp'.days) )
       => (resp'.inserts = 2 /\ licenses' = licenses)]_vars

\* C16: no two records ever share a key, and no operation changes the key
\* of an existing record, also when generate, the order webhook and activate
\* on an unknown key insert records for the same key one after the other.
C16_KeyUniqueImmutable ==
    [][/\ \A r1 \in licenses', r2 \in licenses' : r1.key = r2.key => r1 = r2
       /\ \A r \in licenses :
             \E r2 \in licenses' : r2.id = r.id /\ r2.key = r.key]_vars

C16_Witness ==
    /\ resp.op = "generate" /\ resp.status = 500 /\ resp.inserts = 1
    /\ Cardinality(licenses) = 2
    /\ \E r \in licenses : r.key = "S-1" /\ r.owner_email = Null /\ r.id = 2

\* C17: a generate with tier S, G or A and days >= 1 whose generated key is
\* not stored yet answers 200 and inserts one record with that tier, active =
\* true, bound_ip unset and expires_at = now + days * 86400 s (a stored key
\* is the collision case of C15: 500, nothing inserted).  With any other
\* tier it answers 400 invalid tier and inserts nothing.  The validate of the
\* new key served next answers valid = true with that tier and, binding
\* enabled, bound_ip = the requester.
C17_GenerateThenValidate ==
    [][/\ resp'.op = "generate" /\ resp'.status # 401
          => /\ resp'.tierChar \notin {"S", "G", "A"}
                <=> (resp'.status = 400 /\ resp'.error = "invalid tier")
             /\ resp'.status # 200 => licenses' = licenses
             /\ ( /\ resp'.tierChar \in {"S", "G", "A"}
                  /\ ~IsNaN(resp'.days) /\ ParseInt(resp'.days) >= 1
                  /\ resp'.status # 200 )
                => /\ resp'.status = 500
                   /\ \E rand \in RandInputs :
                         makeKey(resp'.tierChar, rand) \in KeysOf(licenses)
             /\ resp'.status = 200
                => /\ licenses \subseteq licenses'
                   /\ Cardinality(licenses') = Cardinality(licenses) + 1
                   /\ \A r \in licenses' \ licenses :
                         /\ r.key = resp'.license /\ r.tier = resp'.tierChar
                         /\ r.active = 1 /\ r.bound_ip = Null
                         /\ r.expires_at =
                              PlusDays(clock, ParseInt(resp'.days))
       /\ ( /\ resp.op = "generate" /\ resp.status = 200
            /\ ParseInt(resp.days) >= 1
            /\ resp'.op = "validate" /\ resp'.license = resp.license )
          => /\ resp'.valid = "true" /\ resp'.tier = resp.tierChar
             /\ BIND_IP_ON_FIRST_VALIDATE
                => /\ resp'.bound_ip = resp'.ip
                   /\ RowIn(licenses', resp.license).bound_ip = resp'.ip]_vars

C17_Witness ==
    /\ BIND_IP_ON_FIRST_VALIDATE
    /\ resp.op = "validate" /\ resp.valid = "true" /\ resp.tier = "S"
    /\ Truthy(resp.ip) /\ resp.bound_ip = resp.ip
    /\ \E r \in licenses :
          /\ r.key = resp.license /\ r.created_at = clock
          /\ r.expires_at = PlusDays(clock, 1)
          /\ r.bound_ip = resp.ip /\ r.owner_email = "e1"

\* C18: a renew of a known key sets active = true and expires_at = now +
\* days * 86400 s whatever the record's state (deactivated, auto-expired) and
\* changes nothing else, bound_ip, tier and owner_email included.  After a
\* renew with days >= 1 the validate of that key served next answers valid =
\* true when bound_ip holds no address or the requester's, and ip_mismatch
\* when it holds another address.
C18_RenewReactivates ==
    [][/\ \A r \in licenses :
             Served("renew", r.key)
             => /\ RowIn(licenses', r.key) =
                      [r EXCEPT !.active = 1,
                                !.expires_at = PlusDays(clock, ParseInt(resp'.days))]
                /\ Cardinality(licenses') = Cardinality(licenses)
                /\ \A o \in licenses : o.key # r.key => o \in licenses'
       /\ \A r \in licenses :
             ( /\ resp.op = "renew" /\ resp.status = 200
               /\ resp.license = r.key /\ ParseInt(resp.days) >= 1
               /\ ValidateOf(r) )
             => IF ~Truthy(r.bound_ip) \/ r.bound_ip = resp'.ip
                THEN resp'.valid = "true"
                ELSE resp'.valid = "false" /\ resp'.reason = "ip_mismatch"]_vars

C18_Witness ==
    /\ resp.op = "validate" /\ resp.valid = "true"
    /\ \E r \in licenses :
          /\ r.key = resp.license /\ r.active = 1
          /\ Before(r.created_at, clock)
          /\ r.expires_at = PlusDays(clock, 1)
          /\ Truthy(r.bound_ip) /\ r.bound_ip = resp.ip

\* C19: validate checks, in this order, absent, inactive, expired, address
\* mismatch.  An active record whose expires_at has passed is answered
\* expired and set inactive, also when its bound_ip differs from the
\* requester (never ip_mismatch), and nothing else of it is written: an
\* unbound one is not bound, last_seen_ip and last_validated stay as they
\* were.  ip_mismatch is answered only for an active, unexpired record.
C19_StrictOrder ==
    [][/\ (resp'.op = "validate" /\ resp'.reason = "not_found")
          <=> (resp'.op = "validate" /\ Truthy(resp'.license)
                 /\ ~HasRow(resp'.license))
       /\ \A r \in licenses :
             ValidateOf(r)
             => /\ r.active = 0 => resp'.reason = "deactivated"
                /\ (r.active = 1 /\ Before(r.expires_at, clock'))
                   => /\ resp'.valid = "false" /\ resp'.reason = "expired"
                      /\ RowIn(licenses', r.key) = [r EXCEPT !.active = 0]
                /\ resp'.reason = "ip_mismatch"
                   => /\ r.active = 1 /\ ~Before(r.expires_at, clock')
                      /\ Truthy(r.bound_ip) /\ r.bound_ip # resp'.ip]_vars

C19_Witness ==
    /\ resp.op = "validate" /\ resp.reason = "expired"
    /\ \E r \in licenses :
          /\ r.key = resp.license /\ r.active = 0
          /\ Before(r.expires_at, clock)
          /\ Truthy(r.bound_ip) /\ r.bound_ip # resp.ip
          /\ r.last_seen_ip = r.bound_ip

\* C20: the bound_ip a valid = true validate response reports is the bound_ip
\* the record holds after that call; with binding disabled and an unbound
\* record that is no address at all, not the requester's.
C20_ReportedBoundIp ==
    (resp.op = "validate" /\ resp.valid = "true")
    => resp.bound_ip = RowIn(licenses, resp.license).bound_ip

====
